---- MODULE Spec2Model ----
(***************************************************************************)
(* Model of the chore tracking application (app.py, models.py).            *)
(*                                                                         *)
(* The database is three tables (User, Chore, UserChoreStatus).  User and  *)
(* Chore rows carry their integer primary key.  No handler reads the       *)
(* primary key of a UserChoreStatus row, so that table is kept as a bag of *)
(* rows without it: two rows with equal columns stay two rows.  Every      *)
(* Flask session is a cookie held by one client.  Each route handler is    *)
(* one action; the dashboard POST is also modelled step by step (lookup    *)
(* per chore, then commit) for the study of two requests in flight.        *)
(*                                                                         *)
(* Text is a sequence of one-character strings, so that strip() and        *)
(* float() are computed, not assumed.                                      *)
(***************************************************************************)
EXTENDS Integers, Sequences, FiniteSets, Bags, TLC

\* ------------------------------------------------------------------ bounds
\* Largest number of User rows (users are never deleted, ids are 1..n).
MaxUsers == 2
\* Largest Chore id handed out.
MaxChoreId == 2
\* Days are numbered 1..MaxDay; the clock only moves forward.
MaxDay == 2

\* ------------------------------------------------------------- input sets
Clients == {"c1", "c2"}
Slots == {"r1", "r2"}
Methods == {"GET", "POST"}

\* Raw form values submitted as username.
UsernameInputs ==
    { <<>>, <<" ">>, <<"a">>, <<" ", "a", " ">>, <<"b">> }

\* Raw form values submitted as password.
PasswordInputs == { <<>>, <<"p">>, <<"q">> }

\* Salts generate_password_hash may draw.
Salts == { "s1", "s2" }

\* Raw form values submitted as chore name.
NameInputs == { <<>>, <<" ">>, <<" ", "x">> }

\* Raw form values submitted as chore value.
ValueInputs ==
    { <<>>, <<"x">>, <<".">>, <<" ", "1", ".", "5">>, <<"n", "a", "n">>,
      <<"i", "n", "f">> }

\* Chore ids a client may ask to delete (one of them never exists).
ChoreIdInputs == 1..(MaxChoreId + 1)

Days == 1..MaxDay

\* session.get("user_id") of a session that holds no "user_id".
NoUser == 0

\* ----------------------------------------------------------- text helpers
IsSpace(ch) == ch = " "

RECURSIVE LStrip(_)
LStrip(s) ==
    IF s # <<>> /\ IsSpace(Head(s)) THEN LStrip(Tail(s)) ELSE s

RECURSIVE RStrip(_)
RStrip(s) ==
    IF s # <<>> /\ IsSpace(s[Len(s)])
    THEN RStrip(SubSeq(s, 1, Len(s) - 1))
    ELSE s

\* str.strip()
Strip(s) == RStrip(LStrip(s))

DigitChars == {"0", "1", "2", "3", "4", "5", "6", "7", "8", "9"}

DigitVal(ch) ==
    CASE ch = "0" -> 0 [] ch = "1" -> 1 [] ch = "2" -> 2 [] ch = "3" -> 3
      [] ch = "4" -> 4 [] ch = "5" -> 5 [] ch = "6" -> 6 [] ch = "7" -> 7
      [] ch = "8" -> 8 [] ch = "9" -> 9

RECURSIVE DigitsToNat(_, _)
DigitsToNat(s, acc) ==
    IF s = <<>> THEN acc ELSE DigitsToNat(Tail(s), 10 * acc + DigitVal(Head(s)))

AllDigits(s) == \A i \in 1..Len(s) : s[i] \in DigitChars

\* Position of the first "." of s, or 0.
DotPos(s) ==
    IF \E i \in 1..Len(s) : s[i] = "."
    THEN CHOOSE i \in 1..Len(s) : s[i] = "." /\ \A j \in 1..(i - 1) : s[j] # "."
    ELSE 0

RECURSIVE Normalize(_)
\* A decimal [neg, num, scale] stands for (-1)^neg * num / 10^scale.
Normalize(d) ==
    IF d.scale > 0 /\ d.num % 10 = 0
    THEN Normalize([d EXCEPT !.num = d.num \div 10, !.scale = d.scale - 1])
    ELSE IF d.num = 0 THEN [d EXCEPT !.neg = FALSE] ELSE d

NaN == [kind |-> "nan"]
Infinity(neg) == [kind |-> "inf", neg |-> neg]
ParseError == [kind |-> "ValueError"]
Finite(neg, num, scale) ==
    [kind |-> "finite",
     dec |-> Normalize([neg |-> neg, num |-> num, scale |-> scale])]

\* float(text): surrounding blanks are ignored; an optional sign; then
\* "nan", "inf", or digits with at most one "." and at least one digit.
\* (The exponent, "infinity", upper-case and "_" forms of the grammar use
\* characters that no input of ValueInputs holds.)
ParseFloat(text) ==
    LET s == Strip(text)
        signed == s # <<>> /\ Head(s) \in {"+", "-"}
        neg == s # <<>> /\ Head(s) = "-"
        body == IF signed THEN Tail(s) ELSE s
        dot == DotPos(body)
        ip == IF dot = 0 THEN body ELSE SubSeq(body, 1, dot - 1)
        fp == IF dot = 0 THEN <<>> ELSE SubSeq(body, dot + 1, Len(body))
    IN  IF body = <<"n", "a", "n">> THEN NaN
        ELSE IF body = <<"i", "n", "f">> THEN Infinity(neg)
        ELSE IF AllDigits(ip) /\ AllDigits(fp) /\ Len(ip) + Len(fp) > 0
        THEN Finite(neg, DigitsToNat(ip \o fp, 0), Len(fp))
        ELSE ParseError

\* ------------------------------------------------------- password hashing
\* werkzeug.security: the hash string carries its salt; the digest is a
\* function of salt and password taken to be collision free.
Digest(salt, password) == <<salt>> \o password

GeneratePasswordHash(password, salt) ==
    [salt |-> salt, digest |-> Digest(salt, password)]

\* Faulty variant: only the salt part of the digest is compared.
CheckPasswordHashSaltOnly(pwhash, password) ==
    Head(Digest(pwhash.salt, password)) = Head(pwhash.digest)

\* check_password_hash(pwhash, password)
CheckPasswordHash(pwhash, password) ==
    Digest(pwhash.salt, password) = pwhash.digest

\* ------------------------------------------------------------------ state
VARIABLES
    users,      \* User rows: [id, username, password_hash]
    chores,     \* Chore rows: [id, name, value]
    statuses,   \* UserChoreStatus rows, a bag of
                \*   [user_id, chore_id, date, prepared, verified, completed]
    session,    \* per client: the user id its session cookie holds, or NoUser
    today,      \* datetime.date.today()
    resp,       \* the response to the last request handled
    reqs,       \* per slot: a dashboard POST in flight (stepwise execution)
    writer      \* the slot holding the database write lock, or NoWriter

vars == <<users, chores, statuses, session, today, resp, reqs, writer>>

NoWriter == "none"

IdleReq ==
    [pc |-> "idle", user |-> NoUser, day |-> 0, form |-> <<>>,
     todo |-> <<>>, news |-> <<>>, mods |-> <<>>]

\* ------------------------------------------------------------- responses
Redirect(to, msg) == [kind |-> "redirect", to |-> to, flash |-> msg]
Render(page) == [kind |-> "render", to |-> page, flash |-> ""]
NotFound == [kind |-> "abort", to |-> "404", flash |-> ""]
ServerError == [kind |-> "abort", to |-> "500", flash |-> ""]
NoResponse == [kind |-> "none", to |-> "", flash |-> ""]

\* ------------------------------------------------------------ ORM helpers
Max(S) == CHOOSE x \in S : \A y \in S : y <= x

\* SQLite INTEGER PRIMARY KEY without AUTOINCREMENT: largest rowid plus one.
NextId(table) ==
    IF table = {} THEN 1 ELSE Max({row.id : row \in table}) + 1

\* Faulty variant: the filter never matches.
UsersNamedNever(username) == {}

\* User.query.filter_by(username=...)
UsersNamed(username) == {u \in users : u.username = username}

\* Faulty variant: the date is left out of the filter.
MatchingAnyDate(S, u, c, d) ==
    {r \in BagToSet(S) : r.user_id = u /\ r.chore_id = c}

\* UserChoreStatus.query.filter_by(user_id=, chore_id=, date=)
Matching(S, u, c, d) ==
    {r \in BagToSet(S) : r.user_id = u /\ r.chore_id = c /\ r.date = d}

\* db.session.add(row) / db.session.delete(row), as the commit applies them.
AddRow(S, row) == S (+) SetToBag({row})
RemoveRow(S, row) == S (-) SetToBag({row})

RECURSIVE SortedSeq(_)
\* Chore.query.all(): the chore ids in rowid order.
SortedSeq(ids) ==
    IF ids = {} THEN <<>>
    ELSE LET m == CHOOSE x \in ids : \A y \in ids : x <= y
         IN  <<m>> \o SortedSeq(ids \ {m})

ChoreIds == {ch.id : ch \in chores}

\* ------------------------------------------------------- dashboard forms
ON == <<"o", "n">>

FieldIds == 1..(MaxChoreId + 1)
OddIds == {i \in FieldIds : i % 2 = 1}

\* Nothing ticked.
FormNone == [key \in {} |-> <<>>]

\* prepared ticked for every chore; verified sent with an empty value.
FormPrepared ==
    [key \in {<<k, i>> : k \in {"prepared", "verified"}, i \in FieldIds} |->
        IF key[1] = "prepared" THEN ON ELSE <<>>]

\* completed ticked for every chore, verified for the odd ones.
FormMixed ==
    [key \in {<<"completed", i>> : i \in FieldIds}
             \cup {<<"verified", i>> : i \in OddIds} |-> ON]

Forms == {FormPrepared, FormMixed}

\* bool(request.form.get(f"{kind}_{chore.id}"))
Checked(form, kind, choreId) ==
    /\ <<kind, choreId>> \in DOMAIN form
    /\ form[<<kind, choreId>>] # <<>>

Flags(form, choreId) ==
    [prepared |-> Checked(form, "prepared", choreId),
     verified |-> Checked(form, "verified", choreId),
     completed |-> Checked(form, "completed", choreId)]

\* UserChoreStatus(user_id=, chore_id=, date=) with its three flags assigned.
NewStatus(u, c, d, fl) ==
    [user_id |-> u, chore_id |-> c, date |-> d,
     prepared |-> fl.prepared, verified |-> fl.verified,
     completed |-> fl.completed]

\* Faulty variant: a row that exists keeps its flags.
SetFlagsKeep(row, fl) == row

\* status.prepared = ...; status.verified = ...; status.completed = ...
SetFlags(row, fl) ==
    [row EXCEPT !.prepared = fl.prepared, !.verified = fl.verified,
                !.completed = fl.completed]

\* Faulty variant: a row is added without looking for an existing one.
UpsertNoLookup(S, u, c, d, fl) == {AddRow(S, NewStatus(u, c, d, fl))}

\* One pass of the loop body for chore c: the row found by first() is
\* updated, or a new row is added.  first() without ORDER BY may return any
\* matching row, so the result is a set of possible tables.
Upsert(S, u, c, d, fl) ==
    LET m == Matching(S, u, c, d)
    IN  IF m = {}
        THEN {AddRow(S, NewStatus(u, c, d, fl))}
        ELSE {AddRow(RemoveRow(S, row), SetFlags(row, fl)) : row \in m}

RECURSIVE PostLoop(_, _, _, _, _)
\* for chore in Chore.query.all(): ... ; the tables the commit may leave.
PostLoop(S, u, d, form, cs) ==
    IF cs = <<>> THEN {S}
    ELSE UNION {PostLoop(T, u, d, form, Tail(cs)) :
                    T \in Upsert(S, u, Head(cs), d, Flags(form, Head(cs)))}

\* Faulty variant: the relationship cascades nothing.
CascadeNone(choreId) == {}

\* cascade="all, delete-orphan" on Chore.statuses: the rows the ORM deletes
\* together with the chore.
CascadeOf(choreId) == {r \in BagToSet(statuses) : r.chore_id = choreId}

\* The table without the rows of `gone`.
Without(S, gone) ==
    LET keep == BagToSet(S) \ gone
    IN  [r \in keep |-> S[r]]

\* Faulty variant: the decorator lets every request through.
LoggedInAlways(c) == TRUE

\* "user_id" in session
LoggedIn(c) == session[c] # NoUser

\* Faulty variant: the ValueError is swallowed.
IsValueErrorNever(value_num) == FALSE

\* except ValueError: the value field is rejected.
IsValueError(value_num) == value_num = ParseError

Idle == UNCHANGED <<reqs, writer>>

\* ------------------------------------------------------------ row shapes
\* User: id, username (nullable=False), password_hash (nullable=False).
UserRow(u) ==
    /\ u.id \in 1..MaxUsers
    /\ u.username \in Seq({" ", "a", "b"})
    /\ u.password_hash.salt \in Salts
    /\ u.password_hash.digest \in Seq(Salts \cup {"p", "q"})

\* Chore: id, name (nullable=False), value (Float, nullable=False).
ChoreRow(ch) ==
    /\ ch.id \in 1..MaxChoreId
    /\ ch.name \in Seq({" ", "x"})
    /\ ch.value.kind \in {"finite", "inf"}

\* UserChoreStatus: user_id, chore_id, date and the three Boolean flags.
StatusRow(r) ==
    /\ r.user_id \in 1..MaxUsers
    /\ r.chore_id \in 1..MaxChoreId
    /\ r.date \in Days
    /\ r.prepared \in BOOLEAN /\ r.verified \in BOOLEAN
    /\ r.completed \in BOOLEAN

TypeOK ==
    /\ \A u \in users : UserRow(u)
    /\ \A ch \in chores : ChoreRow(ch)
    /\ IsABag(statuses)
    /\ \A r \in BagToSet(statuses) : StatusRow(r)
    /\ \A u1, u2 \in users : u1.id = u2.id => u1 = u2
    /\ \A c1, c2 \in chores : c1.id = c2.id => c1 = c2
    /\ \A c \in Clients : session[c] \in {NoUser} \cup {u.id : u \in users}
    /\ today \in Days
    /\ writer \in Slots \cup {NoWriter}
    /\ \A r \in Slots : reqs[r].pc \in {"idle", "loop"}

\* ------------------------------------------------------------------- Init
Init ==
    /\ users = {}
    /\ chores = {}
    /\ statuses = EmptyBag
    /\ session = [c \in Clients |-> NoUser]
    /\ today = 1
    /\ resp = NoResponse
    /\ reqs = [r \in Slots |-> IdleReq]
    /\ writer = NoWriter

\* --------------------------------------------------------------- handlers
\* The clock passes midnight.
Midnight ==
    /\ today < MaxDay
    /\ today' = today + 1
    /\ UNCHANGED <<users, chores, statuses, session, resp>>
    /\ Idle

\* salt: the salt generate_password_hash draws for this request.
register(method, username, password, salt) ==
    /\ UNCHANGED <<chores, statuses, session, today>>
    /\ Idle
    /\ IF method = "POST"
       THEN LET name == Strip(username)
            IN  IF name = <<>> \/ password = <<>>
                THEN /\ resp' = Redirect("register",
                                  "Both username and password are required.")
                     /\ UNCHANGED users
                ELSE IF UsersNamed(name) # {}
                THEN /\ resp' = Redirect("register", "Username is already taken.")
                     /\ UNCHANGED users
                ELSE /\ Cardinality(users) < MaxUsers
                     /\ users' = users \cup
                          {[id |-> NextId(users), username |-> name,
                            password_hash |->
                                GeneratePasswordHash(password, salt)]}
                     /\ resp' = Redirect("login",
                                  "Registration successful. Please log in.")
       ELSE /\ resp' = Render("register.html")
            /\ UNCHANGED users

login(c, method, username, password) ==
    /\ UNCHANGED <<users, chores, statuses, today>>
    /\ Idle
    /\ IF method = "POST"
       THEN LET found == UsersNamed(Strip(username))
            IN  IF found = {}
                THEN /\ resp' = Redirect("login", "Invalid username or password.")
                     /\ UNCHANGED session
                ELSE \E user \in found :
                        IF CheckPasswordHash(user.password_hash, password)
                        THEN /\ session' = [session EXCEPT ![c] = user.id]
                             /\ resp' = Redirect("dashboard",
                                          "Logged in successfully.")
                        ELSE /\ resp' = Redirect("login",
                                          "Invalid username or password.")
                             /\ UNCHANGED session
       ELSE /\ resp' = Render("login.html")
            /\ UNCHANGED session

logout(c) ==
    /\ session' = [session EXCEPT ![c] = NoUser]
    /\ resp' = Redirect("login", "You have been logged out.")
    /\ UNCHANGED <<users, chores, statuses, today>>
    /\ Idle

dashboardPost(c, form) ==
    /\ statuses' \in PostLoop(statuses, session[c], today, form,
                              SortedSeq(ChoreIds))
    /\ resp' = Redirect("dashboard", "Chore statuses updated.")

\* Faulty variant: the rows built for the template are committed.
dashboardGetPersist(c) ==
    /\ statuses' \in PostLoop(statuses, session[c], today, FormNone,
                              SortedSeq({i \in ChoreIds :
                                  Matching(statuses, session[c], i, today) = {}}))
    /\ resp' = Render("dashboard.html")

\* On GET the missing rows are built for the template only.
dashboardGet(c) ==
    /\ UNCHANGED statuses
    /\ resp' = Render("dashboard.html")

dashboard(c, method, form) ==
    /\ UNCHANGED <<users, chores, session, today>>
    /\ Idle
    /\ IF ~LoggedIn(c)
       THEN /\ resp' = Redirect("login", "")
            /\ UNCHANGED statuses
       ELSE IF method = "POST"
       THEN dashboardPost(c, form)
       ELSE dashboardGet(c)

add_chore(c, method, name, value) ==
    /\ UNCHANGED <<users, statuses, session, today>>
    /\ Idle
    /\ IF ~LoggedIn(c)
       THEN /\ resp' = Redirect("login", "")
            /\ UNCHANGED chores
       ELSE IF method = "POST"
       THEN LET value_num == ParseFloat(Strip(value))
            IN  IF IsValueError(value_num)
                THEN /\ resp' = Redirect("add_chore",
                                  "Please enter a valid value for the chore.")
                     /\ UNCHANGED chores
                ELSE IF Strip(name) = <<>>
                THEN /\ resp' = Redirect("add_chore", "Chore name is required.")
                     /\ UNCHANGED chores
                ELSE IF value_num = NaN
                THEN \* SQLite binds NaN as NULL and Chore.value is NOT NULL:
                     \* the commit raises IntegrityError.
                     /\ resp' = ServerError
                     /\ UNCHANGED chores
                ELSE /\ NextId(chores) <= MaxChoreId
                     /\ chores' = chores \cup
                           {[id |-> NextId(chores), name |-> Strip(name),
                             value |-> value_num]}
                     /\ resp' = Redirect("add_chore", "Chore added successfully.")
       ELSE /\ resp' = Render("add_chore.html")
            /\ UNCHANGED chores

delete_chore(c, chore_id) ==
    /\ UNCHANGED <<users, session, today>>
    /\ Idle
    /\ IF ~LoggedIn(c)
       THEN /\ resp' = Redirect("login", "")
            /\ UNCHANGED <<chores, statuses>>
       ELSE IF chore_id \notin ChoreIds
       THEN /\ resp' = NotFound
            /\ UNCHANGED <<chores, statuses>>
       ELSE /\ chores' = {ch \in chores : ch.id # chore_id}
            /\ statuses' = Without(statuses, CascadeOf(chore_id))
            /\ resp' = Redirect("add_chore", "Deleted chore.")

\* ---------------------------------------------------------- specifications
\* Inputs of the specification that exercises the status table.
PlainUsernames == { <<"a">>, <<" ", "b">> }
PlainPasswords == { <<"p">> }
PlainNames == { <<" ", "x">> }
PlainValues == { <<" ", "1", ".", "5">> }

\* Every handler, requests handled one at a time; the whole variety of
\* dashboard forms, chores coming and going, days passing.
Next ==
    \/ Midnight
    \/ \E u \in PlainUsernames, p \in PlainPasswords :
          register("POST", u, p, "s1")
    \/ \E c \in Clients, u \in PlainUsernames, p \in PlainPasswords :
          login(c, "POST", u, p)
    \/ \E c \in Clients : logout(c)
    \/ \E c \in Clients, m \in Methods, f \in Forms : dashboard(c, m, f)
    \/ \E c \in Clients, n \in PlainNames, v \in PlainValues :
          add_chore(c, "POST", n, v)
    \/ \E c \in Clients, i \in ChoreIdInputs : delete_chore(c, i)

Spec == Init /\ [][Next]_vars

\* Registration, login and logout with the whole variety of their form
\* inputs, requests handled one at a time.
NextAuth ==
    \/ \E u \in UsernameInputs, p \in PasswordInputs, s \in Salts :
          register("POST", u, p, s)
    \/ register("GET", <<>>, <<>>, "s1")
    \/ \E c \in Clients, u \in UsernameInputs, p \in PasswordInputs :
          login(c, "POST", u, p)
    \/ \E c \in Clients : login(c, "GET", <<>>, <<>>)
    \/ \E c \in Clients : logout(c)
    \/ \E c \in Clients : dashboard(c, "GET", FormNone)

SpecAuth == Init /\ [][NextAuth]_vars

\* Chore management with the whole variety of its form inputs, requests
\* handled one at a time.
NextChores ==
    \/ \E u \in PlainUsernames, p \in PlainPasswords :
          register("POST", u, p, "s1")
    \/ \E c \in Clients, u \in PlainUsernames, p \in PlainPasswords :
          login(c, "POST", u, p)
    \/ \E c \in Clients : logout(c)
    \/ \E c \in Clients, n \in NameInputs, v \in ValueInputs :
          add_chore(c, "POST", n, v)
    \/ \E c \in Clients : add_chore(c, "GET", <<>>, <<>>)
    \/ \E c \in Clients, i \in ChoreIdInputs : delete_chore(c, i)

SpecChores == Init /\ [][NextChores]_vars

\* ------------------------------------------- dashboard POST, step by step
\* The attributes of mod.loaded that the handler assigned a different value:
\* only these are written by the UPDATE the flush emits.
ChangedAttrs(mod) ==
    {a \in {"prepared", "verified", "completed"} : mod.set[a] # mod.loaded[a]}

\* The ORM session of request q holds something to flush.
Dirty(q) ==
    \/ q.news # <<>>
    \/ \E i \in 1..Len(q.mods) : ChangedAttrs(q.mods[i]) # {}

\* UPDATE ... WHERE id = <the row loaded>: the row is addressed by its
\* primary key; it is the row of the triple when there is one row, and one
\* of the rows of the triple otherwise.
ApplyMod(S, mod) ==
    LET ch == ChangedAttrs(mod)
        targets == Matching(S, mod.loaded.user_id, mod.loaded.chore_id,
                            mod.loaded.date)
        written(row) ==
            [row EXCEPT
                !.prepared = IF "prepared" \in ch THEN mod.set.prepared ELSE @,
                !.verified = IF "verified" \in ch THEN mod.set.verified ELSE @,
                !.completed = IF "completed" \in ch THEN mod.set.completed
                              ELSE @]
    IN  IF ch = {} \/ targets = {} THEN {S}
        ELSE {AddRow(RemoveRow(S, row), written(row)) : row \in targets}

RECURSIVE ApplyMods(_, _)
ApplyMods(S, mods) ==
    IF mods = <<>> THEN {S}
    ELSE UNION {ApplyMods(T, Tail(mods)) : T \in ApplyMod(S, Head(mods))}

RECURSIVE ApplyNews(_, _)
\* INSERT of every row added to the ORM session.
ApplyNews(S, news) ==
    IF news = <<>> THEN S ELSE ApplyNews(AddRow(S, Head(news)), Tail(news))

\* The request enters the handler: the user, the day and the list of
\* chores are read.
PostBegin(r, c, form) ==
    /\ reqs[r].pc = "idle"
    /\ LoggedIn(c)
    /\ reqs' = [reqs EXCEPT ![r] =
                  [pc |-> "loop", user |-> session[c], day |-> today,
                   form |-> form, todo |-> SortedSeq(ChoreIds),
                   news |-> <<>>, mods |-> <<>>]]
    /\ UNCHANGED <<users, chores, statuses, session, today, resp, writer>>

\* One pass of the loop: the query autoflushes what the ORM session holds
\* (the first write takes the database write lock, kept until the commit),
\* then reads the committed rows; the row found is modified in memory, or a
\* new one is added to the ORM session.
PostLookup(r) ==
    LET q == reqs[r]
        c == Head(q.todo)
        fl == Flags(q.form, c)
        m == Matching(statuses, q.user, c, q.day)
    IN  /\ q.pc = "loop"
        /\ q.todo # <<>>
        /\ Dirty(q) => writer \in {NoWriter, r}
        /\ writer' = IF Dirty(q) THEN r ELSE writer
        /\ IF m = {}
           THEN reqs' = [reqs EXCEPT ![r].todo = Tail(q.todo),
                           ![r].news = Append(q.news,
                                          NewStatus(q.user, c, q.day, fl))]
           ELSE \E row \in m :
                   reqs' = [reqs EXCEPT ![r].todo = Tail(q.todo),
                              ![r].mods = Append(q.mods,
                                             [loaded |-> row, set |-> fl])]
        /\ UNCHANGED <<users, chores, statuses, session, today, resp>>

\* db.session.commit(): flush what is left and commit.
PostCommit(r) ==
    LET q == reqs[r]
    IN  /\ q.pc = "loop"
        /\ q.todo = <<>>
        /\ Dirty(q) => writer \in {NoWriter, r}
        /\ writer' = IF writer = r THEN NoWriter ELSE writer
        /\ statuses' \in {ApplyNews(T, q.news) : T \in ApplyMods(statuses, q.mods)}
        /\ reqs' = [reqs EXCEPT ![r] = IdleReq]
        /\ resp' = Redirect("dashboard", "Chore statuses updated.")
        /\ UNCHANGED <<users, chores, session, today>>

\* The write lock is held by the other request for longer than the busy
\* timeout: the flush raises OperationalError and the request is rolled
\* back.
PostTimeout(r) ==
    LET q == reqs[r]
    IN  /\ q.pc = "loop"
        /\ Dirty(q)
        /\ writer \notin {NoWriter, r}
        /\ reqs' = [reqs EXCEPT ![r] = IdleReq]
        /\ resp' = ServerError
        /\ UNCHANGED <<users, chores, statuses, session, today, writer>>

\* One user, chores being added, and dashboard POSTs of that user running
\* in two slots whose steps interleave.
NextConc ==
    \/ /\ writer = NoWriter
       /\ register("POST", <<"a">>, <<"p">>, "s1")
    \/ \E c \in Clients : login(c, "POST", <<"a">>, <<"p">>)
    \/ /\ writer = NoWriter
       /\ \E c \in Clients, n \in PlainNames, v \in PlainValues :
             add_chore(c, "POST", n, v)
    \/ \E r \in Slots, c \in Clients, f \in Forms : PostBegin(r, c, f)
    \/ \E r \in Slots : PostLookup(r)
    \/ \E r \in Slots : PostCommit(r)
    \/ \E r \in Slots : PostTimeout(r)

SpecConc == Init /\ [][NextConc]_vars

\* ------------------------------------------------------------ properties
\* Number of rows of table S for the triple (u, c, d).
RowCount(S, u, c, d) ==
    LET m == {r \in BagToSet(S) :
                 r.user_id = u /\ r.chore_id = c /\ r.date = d}
    IN  BagCardinality([r \in m |-> S[r]])

\* The rows of S that are not rows of user u on day d.
OtherRows(S, u, d) ==
    LET keep == {r \in BagToSet(S) : r.user_id # u \/ r.date # d}
    IN  [r \in keep |-> S[r]]

\* The checkbox `kind` of chore i is ticked in form f.
Ticked(f, kind, i) ==
    \E key \in DOMAIN f : key = <<kind, i>> /\ Len(f[key]) > 0

StatusesUpdated == Redirect("dashboard", "Chore statuses updated.")
ChoreDeleted == Redirect("add_chore", "Deleted chore.")
ToLogin == Redirect("login", "")

\* C1: whatever requests were handled, one at a time, the status table
\* holds at most one row for each (user_id, chore_id, date).
C1_OneRowPerTriple ==
    \A r \in BagToSet(statuses) :
        RowCount(statuses, r.user_id, r.chore_id, r.date) = 1

\* Two users both have a row for the same chore, and one of them has rows
\* on two days.
C1_Witness ==
    \E r1, r2, r3 \in BagToSet(statuses) :
        /\ r1.user_id # r2.user_id /\ r1.chore_id = r2.chore_id
        /\ r1.date = r2.date
        /\ r3.user_id = r1.user_id /\ r3.chore_id = r1.chore_id
        /\ r3.date # r1.date

\* C2: a registration whose stripped username is already taken adds no
\* User row and leaves every row (password hashes included) as it was;
\* usernames are unique and never empty.
C2_DuplicateRegistrationFails ==
    /\ [](\A u1, u2 \in users :
            /\ u1.username # <<>>
            /\ (u1.username = u2.username => u1 = u2))
    /\ [][\A un \in UsernameInputs, pw \in PasswordInputs, s \in Salts :
            (/\ register("POST", un, pw, s)
             /\ \E u \in users : u.username = Strip(un))
            => /\ users' = users
               /\ resp'.kind = "redirect" /\ resp'.to = "register"]_vars

\* A taken username was refused while two users are registered.
C2_Witness ==
    /\ resp = Redirect("register", "Username is already taken.")
    /\ Cardinality(users) = 2

\* The stored hash of user u is a hash of password pw.
RegisteredWith(u, pw) ==
    u.password_hash = GeneratePasswordHash(pw, u.password_hash.salt)

\* C3: a login POST puts user u's id in the client's session exactly when
\* the username (as the handler reads it, stripped) is u's and the
\* password is the one u registered with; otherwise the session is left as
\* it was and the client is sent back to login.
C3_LoginIffCredentials ==
    [][\A c \in Clients, un \in UsernameInputs, pw \in PasswordInputs :
          login(c, "POST", un, pw) =>
            LET good == {u \in users :
                           u.username = Strip(un) /\ RegisteredWith(u, pw)}
            IN  /\ good # {} =>
                     /\ \E u \in good :
                           session' = [session EXCEPT ![c] = u.id]
                     /\ resp'.to = "dashboard"
                /\ good = {} =>
                     /\ session' = session
                     /\ resp' = Redirect("login",
                                  "Invalid username or password.")]_vars

\* A login was refused while another client holds a session and two users
\* are registered.
C3_Witness ==
    /\ resp = Redirect("login", "Invalid username or password.")
    /\ \E c1, c2 \in Clients : session[c1] # NoUser /\ session[c2] = NoUser
    /\ Cardinality(users) = 2

\* C4: after a dashboard POST by a logged-in user, every chore has exactly
\* one row for (user, chore, today), and its three flags are the three
\* checkboxes of the form (absent or empty: false).
C4_PostStoresCheckboxes ==
    [][\A c \in Clients, f \in Forms :
          (session[c] # NoUser /\ dashboard(c, "POST", f)) =>
            \A ch \in chores :
                /\ RowCount(statuses', session[c], ch.id, today) = 1
                /\ \A r \in BagToSet(statuses') :
                      (r.user_id = session[c] /\ r.chore_id = ch.id
                          /\ r.date = today)
                      => /\ r.prepared = Ticked(f, "prepared", ch.id)
                         /\ r.verified = Ticked(f, "verified", ch.id)
                         /\ r.completed = Ticked(f, "completed", ch.id)]_vars

\* A POST was handled and the table holds rows with different flags.
C4_Witness ==
    /\ resp = StatusesUpdated
    /\ \E r1, r2 \in BagToSet(statuses) :
          /\ r1.prepared /\ ~r1.verified /\ ~r1.completed
          /\ ~r2.prepared /\ r2.verified /\ r2.completed

\* C5: an add_chore POST whose value is no number, or whose name is blank,
\* leaves the Chore table unchanged (a value that raises ValueError is
\* refused with the value message whatever the name); every Chore row has a
\* non-empty name and a number (not NaN, not NULL) as value.
C5_ChoreValidated ==
    /\ [](\A ch \in chores :
            ch.name # <<>> /\ ch.value.kind \in {"finite", "inf"})
    /\ [][\A c \in Clients, n \in NameInputs, v \in ValueInputs :
            add_chore(c, "POST", n, v) =>
              /\ (ParseFloat(v).kind \in {"ValueError", "nan"}
                     \/ Strip(n) = <<>>)
                    => chores' = chores
              /\ (session[c] # NoUser /\ ParseFloat(v) = ParseError)
                    => resp' = Redirect("add_chore",
                                 "Please enter a valid value for the chore.")
              /\ (session[c] # NoUser /\ ParseFloat(v) # ParseError
                     /\ Strip(n) = <<>>)
                    => resp' = Redirect("add_chore", "Chore name is required.")
         ]_vars

\* A value was refused while a chore exists.
C5_Witness ==
    /\ resp = Redirect("add_chore", "Please enter a valid value for the chore.")
    /\ chores # {}

\* C6: delete_chore of an existing chore by a logged-in user removes the
\* chore and every status row of it; every status row references a chore
\* that exists.
C6_DeleteCascades ==
    /\ [](\A r \in BagToSet(statuses) : r.chore_id \in ChoreIds)
    /\ [][\A c \in Clients, i \in ChoreIdInputs :
            (session[c] # NoUser /\ i \in ChoreIds /\ delete_chore(c, i))
            => /\ \A ch \in chores' : ch.id # i
               /\ \A r \in BagToSet(statuses') : r.chore_id # i]_vars

\* A chore was deleted; rows of another chore remain.
C6_Witness ==
    /\ resp = ChoreDeleted
    /\ chores # {}
    /\ BagToSet(statuses) # {}

\* C7: while a client's session holds no user_id, its requests to the
\* dashboard, add_chore and delete_chore are redirected to login and change
\* no table and no session; a session gains a user_id only by a successful
\* login.
C7_LoginRequired ==
    [][\A c \in Clients :
          /\ session[c] = NoUser =>
               \A m \in Methods, f \in Forms, n \in PlainNames,
                  v \in PlainValues, i \in ChoreIdInputs :
                   (\/ dashboard(c, m, f)
                    \/ add_chore(c, m, n, v)
                    \/ delete_chore(c, i))
                   => /\ resp' = ToLogin
                      /\ <<users, chores, statuses, session>>' =
                             <<users, chores, statuses, session>>
          /\ (session[c] = NoUser /\ session'[c] # NoUser)
                => resp' = Redirect("dashboard", "Logged in successfully.")
          /\ (\A c2 \in Clients : session[c2] = NoUser)
                => <<chores, statuses>>' = <<chores, statuses>>]_vars

\* Nobody is logged in any more, a request was redirected to login, and the
\* tables hold what earlier sessions left.
C7_Witness ==
    /\ resp = ToLogin
    /\ \A c \in Clients : session[c] = NoUser
    /\ chores # {}
    /\ BagToSet(statuses) # {}

\* C8: the status table changes only by a dashboard POST, which removes no
\* row, or by a delete_chore, which removes exactly the rows of the chore
\* deleted.
C8_StatusFrame ==
    [][statuses' # statuses =>
          \/ /\ resp' = StatusesUpdated
             /\ \A r \in BagToSet(statuses) :
                   RowCount(statuses', r.user_id, r.chore_id, r.date)
                      >= RowCount(statuses, r.user_id, r.chore_id, r.date)
          \/ /\ resp' = ChoreDeleted
             /\ \E i \in ChoreIds \ {ch.id : ch \in chores'} :
                   LET keep == {r \in BagToSet(statuses) : r.chore_id # i}
                   IN  statuses' = [r \in keep |-> statuses[r]]]_vars

\* The dashboard was rendered for a logged-in user who has no row today for
\* some chore.
C8_Witness ==
    /\ resp = Render("dashboard.html")
    /\ \E c \in Clients, ch \in chores :
          /\ session[c] # NoUser
          /\ RowCount(statuses, session[c], ch.id, today) = 0
    /\ BagToSet(statuses) # {}

\* C10: a dashboard POST by user u on day d leaves the User and Chore
\* tables and every status row of another user or another day as they were.
C10_PostFrame ==
    [][\A c \in Clients, f \in Forms :
          (session[c] # NoUser /\ dashboard(c, "POST", f)) =>
            /\ users' = users
            /\ chores' = chores
            /\ OtherRows(statuses', session[c], today)
                  = OtherRows(statuses, session[c], today)]_vars

\* A POST was handled while the table holds a row of another user and a
\* row of the same user for another day.
C10_Witness ==
    /\ resp = StatusesUpdated
    /\ \E c \in Clients, r1, r2 \in BagToSet(statuses) :
          /\ session[c] # NoUser
          /\ r1.user_id # session[c]
          /\ r2.user_id = session[c] /\ r2.date # today

\* C9: once two dashboard POSTs whose lookups and commits interleaved have
\* both committed, the status table holds at most one row for each
\* (user_id, chore_id, date).
C9_ConcurrentPostsKeepOneRow ==
    (\A r \in Slots : reqs[r].pc = "idle") =>
        \A row \in BagToSet(statuses) :
            RowCount(statuses, row.user_id, row.chore_id, row.date) <= 1

====
